---- MODULE Spec2Model ----
(***************************************************************************)
(* Model of public/audiomass/audiomass-server.py: a socketserver.TCPServer *)
(* whose handler, AudioMassHandler, answers GET "/" with a 302 redirect    *)
(* carrying the percent-encoded --url value and delegates everything else  *)
(* to http.server.SimpleHTTPRequestHandler.                                *)
(*                                                                         *)
(* Strings are sequences of code points (47 is "/", 37 is "%", ...).       *)
(* The library calls the script makes (urllib.parse.quote, the request     *)
(* parser, SimpleHTTPRequestHandler.do_GET/do_HEAD, TCPServer) are         *)
(* modelled by what CPython 3.11 does at the call site.                    *)
(***************************************************************************)
EXTENDS Integers, Sequences, FiniteSets, TLC

\* ------------------------------------------------------------------ bounds
\* Longest --url value enumerated by SpecQuote.
MaxUrlLen == 3
\* Number of client connections made in one run.
MaxConns == 2

\* ------------------------------------------------------- program constants
DefaultPort == 5055
SLASH == 47
FOUND == 302

\* --------------------------------------------------------- string helpers
PERCENT == 37
QUESTION == 63
HASH == 35
DOT == 46

DotName == <<DOT>>
DotDotName == <<DOT, DOT>>

RECURSIVE Flatten(_)
Flatten(ss) == IF ss = <<>> THEN <<>> ELSE Head(ss) \o Flatten(Tail(ss))

\* Index of the first occurrence of character c in s, or 0.
RECURSIVE FindFrom(_, _, _)
FindFrom(s, c, i) ==
    IF i > Len(s) THEN 0
    ELSE IF s[i] = c THEN i
    ELSE FindFrom(s, c, i + 1)

Find(s, c) == FindFrom(s, c, 1)

\* s.split(c, 1)[0]
BeforeFirst(s, c) ==
    IF Find(s, c) = 0 THEN s ELSE SubSeq(s, 1, Find(s, c) - 1)

\* the part of s after the first c ("" when c is absent)
AfterFirst(s, c) ==
    IF Find(s, c) = 0 THEN <<>> ELSE SubSeq(s, Find(s, c) + 1, Len(s))

\* s.split(c): the pieces of s between occurrences of c
RECURSIVE Split(_, _)
Split(s, c) ==
    IF Find(s, c) = 0 THEN <<s>>
    ELSE <<SubSeq(s, 1, Find(s, c) - 1)>> \o Split(SubSeq(s, Find(s, c) + 1, Len(s)), c)

\* c.join(parts)
RECURSIVE Join(_, _)
Join(parts, c) ==
    IF parts = <<>> THEN <<>>
    ELSE IF Len(parts) = 1 THEN parts[1]
    ELSE parts[1] \o <<c>> \o Join(Tail(parts), c)

\* s.lstrip(c)
RECURSIVE LStrip(_, _)
LStrip(s, c) ==
    IF s # <<>> /\ Head(s) = c THEN LStrip(Tail(s), c) ELSE s

StartsWith(s, p) == Len(s) >= Len(p) /\ SubSeq(s, 1, Len(p)) = p

EndsWith(s, c) == s # <<>> /\ s[Len(s)] = c

\* ------------------------------------------------------------ UTF-8, hex
\* str.encode('utf-8') of one code point of the Basic Multilingual Plane
\* (surrogates, which make quote() raise, are not in the alphabet).
Utf8Encode(cp) ==
    IF cp < 128 THEN <<cp>>
    ELSE IF cp < 2048 THEN <<192 + (cp \div 64), 128 + (cp % 64)>>
    ELSE <<224 + (cp \div 4096), 128 + ((cp \div 64) % 64), 128 + (cp % 64)>>

IsCont(b) == b >= 128 /\ b < 192

\* bytes.decode('utf-8', errors='replace'): an ill-formed byte becomes U+FFFD.
RECURSIVE Utf8Decode(_)
Utf8Decode(bs) ==
    IF bs = <<>> THEN <<>>
    ELSE IF bs[1] < 128 THEN <<bs[1]>> \o Utf8Decode(Tail(bs))
    ELSE IF bs[1] >= 194 /\ bs[1] < 224 /\ Len(bs) >= 2 /\ IsCont(bs[2])
        THEN <<(bs[1] - 192) * 64 + (bs[2] - 128)>> \o Utf8Decode(SubSeq(bs, 3, Len(bs)))
    ELSE IF bs[1] >= 224 /\ bs[1] < 240 /\ Len(bs) >= 3 /\ IsCont(bs[2]) /\ IsCont(bs[3])
            /\ (bs[1] - 224) * 4096 + (bs[2] - 128) * 64 + (bs[3] - 128) >= 2048
        THEN <<(bs[1] - 224) * 4096 + (bs[2] - 128) * 64 + (bs[3] - 128)>>
                 \o Utf8Decode(SubSeq(bs, 4, Len(bs)))
    ELSE <<65533>> \o Utf8Decode(Tail(bs))

\* "0123456789ABCDEF"[n]
HexDigit(n) == IF n < 10 THEN 48 + n ELSE 55 + n

IsHex(c) == (c >= 48 /\ c <= 57) \/ (c >= 65 /\ c <= 70) \/ (c >= 97 /\ c <= 102)

HexVal(c) == IF c <= 57 THEN c - 48 ELSE IF c <= 70 THEN c - 55 ELSE c - 87

\* urllib.parse._ALWAYS_SAFE: letters, digits and "_.-~"
AlwaysSafe(b) ==
    \/ (b >= 65 /\ b <= 90)
    \/ (b >= 97 /\ b <= 122)
    \/ (b >= 48 /\ b <= 57)
    \/ b \in {95, 46, 45, 126}

QuoteByte(b, safe) ==
    IF AlwaysSafe(b) \/ b \in safe THEN <<b>>
    ELSE <<PERCENT, HexDigit(b \div 16), HexDigit(b % 16)>>

RECURSIVE QuoteBytes(_, _)
QuoteBytes(bs, safe) ==
    IF bs = <<>> THEN <<>> ELSE QuoteByte(Head(bs), safe) \o QuoteBytes(Tail(bs), safe)

\* urllib.parse.quote(string, safe): UTF-8 encode, then escape every byte
\* that is neither always-safe nor in safe.
quote(string, safe) ==
    QuoteBytes(Flatten([i \in 1..Len(string) |-> Utf8Encode(string[i])]), safe)

\* urllib.parse.unquote_to_bytes on an ASCII run: %XX with two hex digits is
\* the byte XX, anything else stands for itself.
RECURSIVE UnquoteToBytes(_)
UnquoteToBytes(s) ==
    IF s = <<>> THEN <<>>
    ELSE IF s[1] = PERCENT /\ Len(s) >= 3 /\ IsHex(s[2]) /\ IsHex(s[3])
        THEN <<HexVal(s[2]) * 16 + HexVal(s[3])>> \o UnquoteToBytes(SubSeq(s, 4, Len(s)))
    ELSE <<s[1]>> \o UnquoteToBytes(Tail(s))

\* Length of the longest prefix of s made of ASCII characters.
RECURSIVE AsciiRun(_)
AsciiRun(s) == IF s = <<>> \/ s[1] >= 128 THEN 0 ELSE 1 + AsciiRun(Tail(s))

\* urllib.parse.unquote(string): ASCII runs are unescaped and UTF-8 decoded,
\* non-ASCII characters are kept.
RECURSIVE unquote(_)
unquote(s) ==
    IF s = <<>> THEN <<>>
    ELSE IF AsciiRun(s) = 0 THEN <<s[1]>> \o unquote(Tail(s))
    ELSE Utf8Decode(UnquoteToBytes(SubSeq(s, 1, AsciiRun(s))))
             \o unquote(SubSeq(s, AsciiRun(s) + 1, Len(s)))

\* ------------------------------------------------------------ file system
\* File names.
N_index_html == <<105, 110, 100, 101, 120, 46, 104, 116, 109, 108>>   \* "index.html"
N_index_htm == <<105, 110, 100, 101, 120, 46, 104, 116, 109>>         \* "index.htm"
N_a_mp3 == <<97, 46, 109, 112, 51>>                                   \* "a.mp3"
N_sub == <<115, 117, 98>>                                             \* "sub"
N_secret == <<115, 101, 99, 114, 101, 116>>                           \* "secret"
N_srv == <<115, 114, 118>>                                            \* "srv"

\* os.getcwd() when the script starts: the directory that is served.
Cwd == <<N_srv>>

\* A file system is a function from absolute paths (sequences of names) to
\* "file" or "dir"; a path outside its domain does not exist.  /secret lies
\* outside the served directory /srv.
FsOf(hasHtml, hasHtm) ==
    LET always == {<<>>, Cwd, <<N_secret>>, Cwd \o <<N_a_mp3>>, Cwd \o <<N_sub>>}
        dom == always \cup (IF hasHtml THEN {Cwd \o <<N_index_html>>} ELSE {})
                      \cup (IF hasHtm THEN {Cwd \o <<N_index_htm>>} ELSE {})
    IN  [p \in dom |->
            IF p \in {<<>>, Cwd, Cwd \o <<N_sub>>} THEN "dir" ELSE "file"]

FileSystems == {FsOf(a, b) : a \in BOOLEAN, b \in BOOLEAN}

Entry(f, p) == IF p \in DOMAIN f THEN f[p] ELSE "absent"

\* The kernel's path resolution: "." stays, ".." goes to the parent, and a
\* name is looked up only in an existing directory.  <<"?">> is a failed lookup.
NoEnt == <<<<QUESTION>>>>

RECURSIVE Walk(_, _, _)
Walk(f, cur, comps) ==
    IF comps = <<>> THEN cur
    ELSE IF cur = NoEnt \/ Entry(f, cur) # "dir" THEN NoEnt
    ELSE IF Head(comps) = DotName THEN Walk(f, cur, Tail(comps))
    ELSE IF Head(comps) = DotDotName
        THEN Walk(f, IF cur = <<>> THEN cur ELSE SubSeq(cur, 1, Len(cur) - 1), Tail(comps))
    ELSE Walk(f, Append(cur, Head(comps)), Tail(comps))

\* The absolute path a translated path names, and what is there.
RealPath(f, p) == Walk(f, <<>>, p.comps)

isdir(f, p) == Entry(f, RealPath(f, p)) = "dir"

isfile(f, p) == Entry(f, RealPath(f, p)) = "file" /\ ~p.trailing

\* os.path.join(path, name)
PathJoin(p, name) == [comps |-> Append(p.comps, name), trailing |-> FALSE]

\* ------------------------------------------------ SimpleHTTPRequestHandler
\* posixpath.normpath
RECURSIVE NormComps(_, _, _)
NormComps(comps, initial, acc) ==
    IF comps = <<>> THEN acc
    ELSE IF Head(comps) \in {<<>>, DotName} THEN NormComps(Tail(comps), initial, acc)
    ELSE IF \/ Head(comps) # DotDotName
            \/ (initial = 0 /\ acc = <<>>)
            \/ (acc # <<>> /\ acc[Len(acc)] = DotDotName)
        THEN NormComps(Tail(comps), initial, Append(acc, Head(comps)))
    ELSE IF acc # <<>> THEN NormComps(Tail(comps), initial, SubSeq(acc, 1, Len(acc) - 1))
    ELSE NormComps(Tail(comps), initial, acc)

InitialSlashes(path) ==
    IF ~StartsWith(path, <<SLASH>>) THEN 0
    ELSE IF StartsWith(path, <<SLASH, SLASH>>) /\ ~StartsWith(path, <<SLASH, SLASH, SLASH>>)
        THEN 2
    ELSE 1

normpath(path) ==
    IF path = <<>> THEN DotName
    ELSE LET joined == Join(NormComps(Split(path, SLASH), InitialSlashes(path), <<>>), SLASH)
             out == [i \in 1..InitialSlashes(path) |-> SLASH] \o joined
         IN  IF out = <<>> THEN DotName ELSE out

\* filter(None, words), then the loop that skips "." and ".."
RECURSIVE SimpleWords(_)
SimpleWords(words) ==
    IF words = <<>> THEN <<>>
    ELSE IF Head(words) \in {<<>>, DotName, DotDotName} THEN SimpleWords(Tail(words))
    ELSE <<Head(words)>> \o SimpleWords(Tail(words))

\* A plausible slip: the request path is joined to the directory as it is.
translate_path_raw(path) ==
    LET p == unquote(BeforeFirst(BeforeFirst(path, QUESTION), HASH))
    IN  [comps |-> Cwd \o SelectSeq(Split(p, SLASH), LAMBDA w : w # <<>>),
         trailing |-> EndsWith(p, SLASH)]

\* SimpleHTTPRequestHandler.translate_path: drop query and fragment, unquote,
\* normalise, and join the simple names to the served directory.
translate_path(path) ==
    LET p == BeforeFirst(BeforeFirst(path, QUESTION), HASH)
    IN  [comps |-> Cwd \o SimpleWords(Split(normpath(unquote(p)), SLASH)),
         trailing |-> EndsWith(p, SLASH)]

NoBody == [kind |-> "none", file |-> <<>>]

Response(status, location, body, via) ==
    [status |-> status, location |-> location, body |-> body, via |-> via]

\* urlsplit(self.path) with "/" appended to its path, put together again
WithSlash(path) ==
    LET rest == BeforeFirst(path, HASH)
        frag == AfterFirst(path, HASH)
        query == AfterFirst(rest, QUESTION)
    IN  BeforeFirst(rest, QUESTION) \o <<SLASH>>
            \o (IF query = <<>> THEN <<>> ELSE <<QUESTION>> \o query)
            \o (IF frag = <<>> THEN <<>> ELSE <<HASH>> \o frag)

\* A plausible slip: a missing file is reported as forbidden.
SendFile_forbidden(f, p) ==
    IF p.trailing \/ Entry(f, RealPath(f, p)) # "file"
    THEN Response(403, <<>>, [kind |-> "error", file |-> <<>>], "static")
    ELSE Response(200, <<>>, [kind |-> "file", file |-> RealPath(f, p)], "static")

\* send_head after the directory branch: the file at p, or 404
SendFile(f, p) ==
    IF p.trailing \/ Entry(f, RealPath(f, p)) # "file"
    THEN Response(404, <<>>, [kind |-> "error", file |-> <<>>], "static")
    ELSE Response(200, <<>>, [kind |-> "file", file |-> RealPath(f, p)], "static")

\* SimpleHTTPRequestHandler.send_head: a directory without a trailing slash
\* is redirected (301), a directory serves index.html, else index.htm, else
\* its listing; anything else is the file or 404.
send_head(f, path) ==
    LET p == translate_path(path)
    IN  IF isdir(f, p)
        THEN IF ~EndsWith(BeforeFirst(BeforeFirst(path, HASH), QUESTION), SLASH)
             THEN Response(301, WithSlash(path), NoBody, "static")
             ELSE IF isfile(f, PathJoin(p, N_index_html))
                 THEN SendFile(f, PathJoin(p, N_index_html))
             ELSE IF isfile(f, PathJoin(p, N_index_htm))
                 THEN SendFile(f, PathJoin(p, N_index_htm))
             ELSE Response(200, <<>>, [kind |-> "listing", file |-> RealPath(f, p)], "static")
        ELSE SendFile(f, p)

\* ------------------------------------------------------------------ state
VARIABLES
    args,        \* argparse result: [port, url], url = [given, value]
    PORT,        \* module global PORT
    portFree,    \* environment: whether the port can be bound
    fs,          \* environment: the file system (never written by the server)
    pc,          \* "bind", "announce", "preload", "serving" or "exited"
    exitStatus,  \* process exit status, -1 while running
    stdout,      \* lines printed
    listening,   \* httpd's socket is bound and listening
    nconn,       \* connections made so far
    backlog,     \* connections waiting in the listen queue
    accepted,    \* ids of the connections accepted, in order
    handling,    \* connections whose handler is running
    responses    \* completed exchanges, in order of completion

vars == <<args, PORT, portFree, fs, pc, exitStatus, stdout, listening,
          nconn, backlog, accepted, handling, responses>>

\* --url absent: args.url is None
NoUrl == [given |-> FALSE, value |-> <<>>]

Url(v) == [given |-> TRUE, value |-> v]

\* Python truthiness of args.url: None and "" are false.
Truthy(url) == url.given /\ url.value # <<>>

\* "https://example.com/a.mp3"
ExampleUrl ==
    <<104, 116, 116, 112, 115, 58, 47, 47, 101, 120, 97, 109, 112, 108, 101,
      46, 99, 111, 109, 47, 97, 46, 109, 112, 51>>

UrlSamples == {NoUrl, Url(<<>>), Url(ExampleUrl)}

Ports == {DefaultPort, 8080}

\* Request targets sent by clients.
T_root == <<SLASH>>                                                   \* "/"
T_slashes == <<SLASH, SLASH>>                                         \* "//"
T_root_query == <<47, 63, 120, 61, 49>>                               \* "/?x=1"
T_index_query ==
    <<47, 105, 110, 100, 101, 120, 46, 104, 116, 109, 108, 63, 102, 111, 111, 61, 49>>
                                                                      \* "/index.html?foo=1"
T_up_secret == <<47, 46, 46, 47, 115, 101, 99, 114, 101, 116>>        \* "/../secret"
T_up_mp3 == <<47, 46, 46, 47, 97, 46, 109, 112, 51>>                  \* "/../a.mp3"
T_enc_up_secret ==
    <<47, 37, 50, 101, 37, 50, 101, 47, 115, 101, 99, 114, 101, 116>> \* "/%2e%2e/secret"
T_sub == <<47, 115, 117, 98>>                                         \* "/sub"
T_missing == <<47, 109, 105, 115, 115, 105, 110, 103, 46, 120, 121, 122>>
                                                                      \* "/missing.xyz"

Targets ==
    {T_root, T_slashes, T_root_query, T_index_query, T_up_secret, T_up_mp3,
     T_enc_up_secret, T_sub, T_missing}

Request(m, t) == [method |-> m, target |-> t]

Requests ==
    {Request("GET", t) : t \in Targets}
        \cup {Request(m, T_root) : m \in {"HEAD", "POST"}}

\* Characters of the --url values enumerated by SpecQuote:
\* a % 2 F / : ? space + e-acute
Alphabet == {97, 37, 50, 70, 47, 58, 63, 32, 43, 233}

Strings(n) == UNION {[1..k -> Alphabet] : k \in 0..n}

\* ------------------------------------------------------------ the handler
\* "/index.html?url="
LocationPrefix ==
    <<47, 105, 110, 100, 101, 120, 46, 104, 116, 109, 108, 63, 117, 114, 108, 61>>

\* BaseHTTPRequestHandler.parse_request: a target starting with "//" is
\* reduced to a single leading "/" before self.path is read by the handler.
SelfPath(target) ==
    IF StartsWith(target, <<SLASH, SLASH>>) THEN <<SLASH>> \o LStrip(target, SLASH)
    ELSE target

\* A plausible slip: the URL is put into the header as it is.
EncodeUrl_raw(url) == url

\* line 19
EncodeUrl(url) == quote(url, {})

\* SimpleHTTPRequestHandler.do_GET: send_head, then the file is copied out
StaticGET(path) == send_head(fs, path)

\* SimpleHTTPRequestHandler.do_HEAD: send_head, no body
StaticHEAD(path) == [send_head(fs, path) EXCEPT !.body = NoBody]

\* Plausible slips of the condition on line 18.
do_GET_prefix(path) ==
    IF Truthy(args.url) /\ StartsWith(path, <<SLASH>>)
    THEN Response(FOUND, LocationPrefix \o EncodeUrl(args.url.value), NoBody, "preload")
    ELSE StaticGET(path)

do_GET_always(path) ==
    IF path = <<SLASH>>
    THEN Response(FOUND, LocationPrefix \o EncodeUrl(args.url.value), NoBody, "preload")
    ELSE StaticGET(path)

do_GET_once(path) ==
    IF Truthy(args.url) /\ path = <<SLASH>> /\ responses = <<>>
    THEN Response(FOUND, LocationPrefix \o EncodeUrl(args.url.value), NoBody, "preload")
    ELSE StaticGET(path)

\* AudioMassHandler.do_GET
do_GET(path) ==
    IF Truthy(args.url) /\ path = <<SLASH>>
    THEN Response(FOUND, LocationPrefix \o EncodeUrl(args.url.value), NoBody, "preload")
    ELSE StaticGET(path)

\* AudioMassHandler.do_HEAD is inherited.
do_HEAD(path) == StaticHEAD(path)

\* BaseHTTPRequestHandler.handle_one_request for a method without a do_
\* method: send_error(501)
Unsupported(path) == Response(501, <<>>, [kind |-> "error", file |-> <<>>], "error")

\* What the handler class answers to a request.
Respond(req) ==
    IF req.method = "GET" THEN do_GET(SelfPath(req.target))
    ELSE IF req.method = "HEAD" THEN do_HEAD(SelfPath(req.target))
    ELSE Unsupported(SelfPath(req.target))

Exchange(c, resp) == [conn |-> c.id, req |-> c.req, resp |-> resp]

Line(msg, port, url) == [msg |-> msg, port |-> port, url |-> url]

\* ----------------------------------------------------------------- actions
\* A plausible slip: the bind error is swallowed and the script goes on.
Bind_swallow ==
    /\ pc = "bind"
    /\ listening' = portFree
    /\ pc' = "announce"
    /\ UNCHANGED <<args, PORT, portFree, fs, exitStatus, stdout, nconn, backlog,
                   accepted, handling, responses>>

\* line 26: socketserver.TCPServer(("", PORT), AudioMassHandler) binds and
\* listens; the OSError of a failed bind is not caught, so the interpreter
\* prints the traceback and exits with status 1.
Bind ==
    /\ pc = "bind"
    /\ IF portFree
       THEN /\ listening' = TRUE
            /\ pc' = "announce"
            /\ UNCHANGED exitStatus
       ELSE /\ pc' = "exited"
            /\ exitStatus' = 1
            /\ UNCHANGED listening
    /\ UNCHANGED <<args, PORT, portFree, fs, stdout, nconn, backlog, accepted,
                   handling, responses>>

\* line 27
Announce ==
    /\ pc = "announce"
    /\ stdout' = Append(stdout, Line("Serving", PORT, <<>>))
    /\ pc' = "preload"
    /\ UNCHANGED <<args, PORT, portFree, fs, exitStatus, listening, nconn, backlog,
                   accepted, handling, responses>>

\* lines 28-30: the optional second line, then serve_forever()
PrintPreload ==
    /\ pc = "preload"
    /\ stdout' = IF Truthy(args.url)
                 THEN Append(stdout, Line("Will preload", PORT, args.url.value))
                 ELSE stdout
    /\ pc' = "serving"
    /\ UNCHANGED <<args, PORT, portFree, fs, exitStatus, listening, nconn, backlog,
                   accepted, handling, responses>>

\* A client connects and sends one request (HTTP/1.0: one per connection);
\* the connection waits in the listen queue of the bound socket.
Connect(reqs) ==
    /\ listening
    /\ nconn < MaxConns
    /\ \E r \in reqs :
          backlog' = Append(backlog, [id |-> nconn + 1, req |-> r])
    /\ nconn' = nconn + 1
    /\ UNCHANGED <<args, PORT, portFree, fs, pc, exitStatus, stdout, listening,
                   accepted, handling, responses>>

\* A plausible slip: a threading server accepts while a handler still runs.
Accept_threaded ==
    /\ pc = "serving"
    /\ backlog # <<>>
    /\ handling' = handling \cup {Head(backlog)}
    /\ accepted' = Append(accepted, Head(backlog).id)
    /\ backlog' = Tail(backlog)
    /\ UNCHANGED <<args, PORT, portFree, fs, pc, exitStatus, stdout, listening,
                   nconn, responses>>

\* serve_forever -> _handle_request_noblock -> get_request: TCPServer runs
\* the handler inside process_request, so the loop accepts the next
\* connection only after the previous handler has returned.
Accept ==
    /\ pc = "serving"
    /\ handling = {}
    /\ backlog # <<>>
    /\ handling' = {Head(backlog)}
    /\ accepted' = Append(accepted, Head(backlog).id)
    /\ backlog' = Tail(backlog)
    /\ UNCHANGED <<args, PORT, portFree, fs, pc, exitStatus, stdout, listening,
                   nconn, responses>>

\* The handler of a connection answers and the connection is closed.
Finish(c, resp) ==
    /\ responses' = Append(responses, Exchange(c, resp))
    /\ handling' = handling \ {c}
    /\ UNCHANGED <<args, PORT, portFree, fs, pc, exitStatus, stdout, listening,
                   nconn, backlog, accepted>>

\* AudioMassHandler.do_GET, lines 16-24
DoGET ==
    \E c \in handling :
        /\ c.req.method = "GET"
        /\ Finish(c, do_GET(SelfPath(c.req.target)))

\* do_HEAD, inherited from SimpleHTTPRequestHandler
DoHEAD ==
    \E c \in handling :
        /\ c.req.method = "HEAD"
        /\ Finish(c, do_HEAD(SelfPath(c.req.target)))

\* any other method: 501
DoUnsupported ==
    \E c \in handling :
        /\ c.req.method \notin {"GET", "HEAD"}
        /\ Finish(c, Unsupported(SelfPath(c.req.target)))

\* ----------------------------------------------------------- specifications
Startup(urls, ports, free, systems) ==
    /\ args \in {[port |-> p, url |-> u] : p \in ports, u \in urls}
    /\ PORT = args.port
    /\ portFree \in free
    /\ fs \in systems
    /\ pc = "bind"
    /\ exitStatus = -1
    /\ stdout = <<>>
    /\ listening = FALSE
    /\ nconn = 0
    /\ backlog = <<>>
    /\ accepted = <<>>
    /\ handling = {}
    /\ responses = <<>>

Init == Startup(UrlSamples, Ports, BOOLEAN, FileSystems)

ClientConnects == Connect(Requests)

Next ==
    \/ Bind
    \/ Announce
    \/ PrintPreload
    \/ ClientConnects
    \/ Accept
    \/ DoGET
    \/ DoHEAD
    \/ DoUnsupported

Spec == Init /\ [][Next]_vars

\* Every --url value over Alphabet up to MaxUrlLen, and clients that ask for
\* the root page.
InitQuote ==
    Startup({Url(v) : v \in Strings(MaxUrlLen)}, {DefaultPort}, {TRUE}, {FsOf(TRUE, FALSE)})

RootConnects == Connect({Request("GET", T_root)})

NextQuote ==
    \/ Bind
    \/ Announce
    \/ PrintPreload
    \/ RootConnects
    \/ Accept
    \/ DoGET

SpecQuote == InitQuote /\ [][NextQuote]_vars

\* -------------------------------------------------------------- properties
Done == 1..Len(responses)

IsGET(i) == responses[i].req.method = "GET"

IsPreloadRedirect(r) == r.via = "preload" \/ (r.status = FOUND /\ StartsWith(r.location, LocationPrefix))

\* The Location value after "/index.html?url="
UrlSuffix(r) == SubSeq(r.location, Len(LocationPrefix) + 1, Len(r.location))

\* Every character stands for itself (letters, digits, "_.-~") or belongs
\* to a %XX escape.
RECURSIVE OnlyEscapes(_)
OnlyEscapes(s) ==
    IF s = <<>> THEN TRUE
    ELSE IF s[1] = PERCENT
        THEN Len(s) >= 3 /\ IsHex(s[2]) /\ IsHex(s[3]) /\ OnlyEscapes(SubSeq(s, 4, Len(s)))
    ELSE AlwaysSafe(s[1]) /\ OnlyEscapes(Tail(s))

\* The path part of a request target, unquoted
PathPart(target) == unquote(BeforeFirst(BeforeFirst(target, QUESTION), HASH))

\* The target has a ".." component: followed as written it leaves the directory.
IsTraversal(target) ==
    \E i \in 1..Len(Split(PathPart(target), SLASH)) :
        Split(PathPart(target), SLASH)[i] = DotDotName

\* What the path the handler sees resolves to in the served directory
Resolved(target) == Entry(fs, RealPath(fs, translate_path(SelfPath(target))))

IndexHtml == Cwd \o <<N_index_html>>
IndexHtm == Cwd \o <<N_index_htm>>

\* C1 (as stated): whenever --url was given, with any value, GET "/" is
\* answered 302 with Location "/index.html?url=" + quote(U), made of safe
\* characters and %XX escapes only, without a body and without the static
\* handler.
C1_RootRedirectsForEveryUrl ==
    \A i \in Done :
        (args.url.given /\ IsGET(i) /\ responses[i].req.target = T_root)
            => /\ responses[i].resp.status = FOUND
               /\ responses[i].resp.location = LocationPrefix \o quote(args.url.value, {})
               /\ OnlyEscapes(UrlSuffix(responses[i].resp))
               /\ responses[i].resp.body = NoBody
               /\ responses[i].resp.via = "preload"

\* C2: unquoting what follows "/index.html?url=" in the Location of a
\* preload redirect gives back the --url value exactly.
C2_RoundTrip ==
    \A i \in Done :
        responses[i].resp.via = "preload"
            => /\ StartsWith(responses[i].resp.location, LocationPrefix)
               /\ unquote(UrlSuffix(responses[i].resp)) = args.url.value

\* C2 witness: a redirect was sent for the value "%2F", which looks like an escape.
C2_Witness ==
    /\ args.url.value = <<PERCENT, 50, 70>>
    /\ \E i \in Done : responses[i].resp.via = "preload"

C4_NoUrlIndexOrListing ==
    ~args.url.given =>
        \A i \in Done :
            IsGET(i) =>
                /\ ~IsPreloadRedirect(responses[i].resp)
                /\ responses[i].req.target = T_root =>
                      /\ responses[i].resp.via = "static"
                      /\ responses[i].resp.status = 200
                      /\ IF Entry(fs, IndexHtml) = "file"
                         THEN responses[i].resp.body = [kind |-> "file", file |-> IndexHtml]
                         ELSE responses[i].resp.body = [kind |-> "listing", file |-> Cwd]

\* C4 (amended): without --url no GET is answered with the preload redirect,
\* and GET "/" is 200 with index.html when that file exists, else with
\* index.htm when that file exists, else with the directory listing.
C4_NoUrlIndexPagesOrListing ==
    ~args.url.given =>
        \A i \in Done :
            IsGET(i) =>
                /\ ~IsPreloadRedirect(responses[i].resp)
                /\ responses[i].req.target = T_root =>
                      /\ responses[i].resp.via = "static"
                      /\ responses[i].resp.status = 200
                      /\ IF Entry(fs, IndexHtml) = "file"
                         THEN responses[i].resp.body = [kind |-> "file", file |-> IndexHtml]
                         ELSE IF Entry(fs, IndexHtm) = "file"
                         THEN responses[i].resp.body = [kind |-> "file", file |-> IndexHtm]
                         ELSE responses[i].resp.body = [kind |-> "listing", file |-> Cwd]

\* C4 witness: without --url, GET "/" was answered where only index.htm exists.
C4_Witness ==
    /\ ~args.url.given
    /\ Entry(fs, IndexHtml) = "absent"
    /\ Entry(fs, IndexHtm) = "file"
    /\ \E i \in Done : IsGET(i) /\ responses[i].req.target = T_root

\* C5: a GET for a path that is neither a file nor a directory is answered
\* 404, with or without --url, and after a 404 the server is still serving:
\* every later request gets the answer the handler gives to that request.
C5_NotFoundAndStillServing ==
    /\ \A i \in Done :
          (IsGET(i) /\ Resolved(responses[i].req.target) = "absent")
              => responses[i].resp.status = 404
    /\ (\E i \in Done : responses[i].resp.status = 404)
          => /\ pc = "serving"
             /\ listening
             /\ exitStatus = -1
    /\ \A i, j \in Done :
          (i < j /\ responses[i].resp.status = 404)
              => responses[j].resp = Respond(responses[j].req)

\* C5 witness: with a URL configured, a 404 was followed by the redirect.
C5_Witness ==
    /\ Truthy(args.url)
    /\ Len(responses) >= 2
    /\ responses[1].req = Request("GET", T_missing)
    /\ responses[1].resp.status = 404
    /\ responses[2].resp.via = "preload"

\* C6: when the port cannot be bound the process exits with a non-zero
\* status without printing, listening or answering anything; the
\* announcement and the serving loop are reached only with the socket bound.
C6_BindFailureIsFatal ==
    /\ ~portFree =>
          /\ pc \in {"bind", "exited"}
          /\ stdout = <<>>
          /\ ~listening
          /\ backlog = <<>> /\ handling = {} /\ responses = <<>>
    /\ pc = "exited" => (~portFree /\ exitStatus > 0)
    /\ (stdout # <<>> \/ pc = "serving") => (portFree /\ listening)

\* C6 witness: the process has exited on a port that was not free.
C6_Witness == ~portFree /\ pc = "exited"

C8_Stateless ==
    /\ [][args' = args /\ PORT' = PORT]_vars
    /\ [](PORT = args.port)
    /\ [](\A i, j \in Done :
            responses[i].req = responses[j].req
                => responses[i].resp = responses[j].resp)

\* C8 witness: the same GET "/" was answered twice with a URL configured.
C8_Witness ==
    /\ Truthy(args.url)
    /\ Len(responses) >= 2
    /\ responses[1].req = Request("GET", T_root)
    /\ responses[2].req = Request("GET", T_root)

\* C9: at most one request is being handled at any moment, a connection
\* is accepted only when no handler is running, and responses are completed
\* in the order the connections were accepted.
C9_Sequential ==
    /\ Cardinality(handling) <= 1
    /\ Len(accepted) = Len(responses) + Cardinality(handling)
    /\ \A i \in Done : responses[i].conn = accepted[i]
    /\ \A c \in handling : c.id = accepted[Len(accepted)]

\* C9 witness: a connection waits in the queue while a request is handled.
C9_Witness == handling # {} /\ backlog # <<>>

\* C10 (as stated): a HEAD or POST is never answered with the preload
\* redirect, and whenever --url was given HEAD "/" and GET "/" get
\* different statuses.
C10_OnlyGetRedirects ==
    /\ \A i \in Done : ~IsGET(i) => ~IsPreloadRedirect(responses[i].resp)
    /\ args.url.given =>
          \A i, j \in Done :
              (/\ responses[i].req = Request("HEAD", T_root)
               /\ responses[j].req = Request("GET", T_root))
                  => responses[i].resp.status # responses[j].resp.status

====
